---- MODULE Spec2Model ----
(***************************************************************************)
(* A model of exception_reports/reporter.py: ExceptionReporter builds a    *)
(* report of an exception and of the exceptions it was caused by.          *)
(*                                                                         *)
(* Python values are represented as follows.  None is -1.  An exception is *)
(* a number in Exc.  A string is a sequence of one-character strings.  A   *)
(* traceback object is a pair <<e, i>>: the i-th entry of the traceback of *)
(* exception e; the absent traceback (None) is NullTb.  A dict is a        *)
(* function from its keys.                                                 *)
(***************************************************************************)
EXTENDS Integers, Sequences, FiniteSets, TLC

None == -1

\* Number of exception objects in the heap.
NumExc == 2
\* Total number of traceback entries over all exceptions.
MaxFrames == 3
\* Iterations of the cause-collecting loop the model follows (the loop itself has no bound).
MaxChain == 4

Exc == 1..NumExc
NullTb == <<>>
NoLine == <<>>

Min(a, b) == IF a < b THEN a ELSE b
Max(a, b) == IF a > b THEN a ELSE b

\* s[a:b] of Python for 0 <= a, 0 <= b
Slice(s, a, b) == SubSeq(s, a + 1, Min(b, Len(s)))

(***************************************************************************)
(* Source text.  A line read from a file is <<"bytes", n, decl, high>>:     *)
(* line number n (1-based), the codec name a coding declaration on the     *)
(* line gives ("" when the line has none), and whether the line holds      *)
(* bytes above 127.  A line of text is <<"text", n>>, or <<"replaced", n>> *)
(* when decoding put replacement characters in it.                         *)
(***************************************************************************)
\* decls: the declarations of the first three lines
BytesLines(n, decls, high) ==
    [i \in 1..n |-> <<"bytes", i, IF i <= Len(decls) THEN decls[i] ELSE "", high>>]
TextLines(n) == [i \in 1..n |-> <<"text", i>>]

\* the codec names Python knows as text encodings, among those the files declare
KnownCodecs == {"ascii", "latin-1"}

\* lines 118-125: the first coding declaration of the first two lines, else ascii
DetectEncoding(source) ==
    IF source[1][3] # "" THEN source[1][3]
    ELSE IF Len(source) >= 2 /\ source[2][3] # "" THEN source[2][3]
    ELSE "ascii"

\* line 126, six.text_type(sline, encoding, 'replace') for a known codec:
\* bytes the codec cannot decode are replaced
Decode(sline, encoding) ==
    IF sline[4] /\ encoding = "ascii" THEN <<"replaced", sline[2]>> ELSE <<"text", sline[2]>>

\* A file on disk: missing, or n lines of bytes.
NoFile == [exists |-> FALSE, lines |-> <<>>]
File(n, decls, high) == [exists |-> TRUE, lines |-> BytesLines(n, decls, high)]
\* a file of ASCII lines without a coding declaration
PlainFile(n) == File(n, <<>>, FALSE)

\* f_globals.get('__loader__'): None, an object without get_source, or a
\* get_source that raises ImportError, returns None, or returns n lines of text.
NoLoader == [kind |-> "none", lines |-> <<>>]
Loader(kind, n) == [kind |-> kind, lines |-> TextLines(n)]

\* The source as _get_lines_from_file holds it: None, or a list of lines.
NoSource == [some |-> FALSE, lines |-> <<>>]
Source(lines) == [some |-> TRUE, lines |-> lines]

\* lines 97-110: the loader's source when it has a get_source that gives one
\* (an ImportError is swallowed), else the file's lines (an OSError is swallowed)
ReadSource(file, loader) ==
    IF loader.kind = "text" THEN Source(loader.lines)
    ELSE IF file.exists THEN Source(file.lines)
    ELSE NoSource

Returned(v) == [raised |-> FALSE, value |-> v]
Raised(what) == [raised |-> TRUE, value |-> what]

\* lines 117-126: when the first line is bytes every line is decoded with the
\* encoding the file declares; a name that is no text codec raises LookupError
DecodeSource(source) ==
    IF source[1][1] = "bytes"
    THEN IF DetectEncoding(source) \in KnownCodecs
         THEN Returned([i \in 1..Len(source) |-> Decode(source[i], DetectEncoding(source))])
         ELSE Raised("LookupError")
    ELSE Returned(source)

\* lines 128-135: source[lineno] raises IndexError when lineno is out of range
ContextWindow(source, lineno, context_lines) ==
    LET lower_bound == Max(0, lineno - context_lines)
        upper_bound == lineno + context_lines
    IN  IF lineno >= Len(source) THEN Raised("IndexError")
        ELSE Returned(<<lower_bound,
                        Slice(source, lower_bound, lineno),
                        source[lineno + 1],
                        Slice(source, lineno + 1, upper_bound)>>)

\* _get_lines_from_file where an unobtainable source is an error
GetLinesFromFileStrict(file, lineno, context_lines, loader) ==
    LET source == ReadSource(file, loader)
    IN  IF ~source.some THEN Raised("OSError")
        ELSE IF Len(source.lines) = 0 THEN Raised("IndexError")
        ELSE IF DecodeSource(source.lines).raised THEN DecodeSource(source.lines)
        ELSE ContextWindow(DecodeSource(source.lines).value, lineno, context_lines)

\* _get_lines_from_file(filename, lineno, context_lines, loader, module_name):
\* (pre_context_lineno, pre_context, context_line, post_context), or an exception
GetLinesFromFile(file, lineno, context_lines, loader) ==
    LET source == ReadSource(file, loader)
    IN  IF ~source.some THEN Returned(<<None, <<>>, NoLine, <<>>>>)
        \* line 117: source[0] of an empty list
        ELSE IF Len(source.lines) = 0 THEN Raised("IndexError")
        ELSE IF DecodeSource(source.lines).raised THEN DecodeSource(source.lines)
        ELSE ContextWindow(DecodeSource(source.lines).value, lineno, context_lines)

(***************************************************************************)
(* Rendering of a local variable, get_traceback_data lines 46-57.          *)
(***************************************************************************)
TrimLimit == 4096

\* '%d' % n for n >= 0
RECURSIVE Digits(_)
Digits(n) ==
    LET d == <<"0", "1", "2", "3", "4", "5", "6", "7", "8", "9">>
    IN  IF n < 10 THEN <<d[n + 1]>> ELSE Digits(n \div 10) \o <<d[(n % 10) + 1]>>

MarkerHead == <<".", ".", ".", " ", "<", "t", "r", "i", "m", "m", "e", "d", " ">>
MarkerTail == <<" ", "b", "y", "t", "e", "s", " ", "s", "t", "r", "i", "n", "g", ">">>

\* lines 55-56: '%s... <trimmed %d bytes string>' % (v[0:4096], len(v))
Trim(v) ==
    IF Len(v) > TrimLimit
    THEN SubSeq(v, 1, TrimLimit) \o MarkerHead \o Digits(Len(v)) \o MarkerTail
    ELSE v

\* html.escape of one character (quote=True)
EscapeChar(c) ==
    CASE c = "&" -> <<"&", "a", "m", "p", ";">>
      [] c = "<" -> <<"&", "l", "t", ";">>
      [] c = ">" -> <<"&", "g", "t", ";">>
      [] c = "\"" -> <<"&", "q", "u", "o", "t", ";">>
      [] c = "'" -> <<"&", "#", "x", "2", "7", ";">>
      [] OTHER -> <<c>>

\* html.escape(v)
RECURSIVE Escape(_)
Escape(v) ==
    IF Len(v) = 0 THEN <<>>
    ELSE IF Len(v) = 1 THEN EscapeChar(v[1])
    ELSE LET m == Len(v) \div 2
         IN  Escape(SubSeq(v, 1, m)) \o Escape(SubSeq(v, m + 1, Len(v)))

\* lines 47-57 with the trimming applied to the escaped string
RenderVarEscapeFirst(value) == Trim(Escape(value.text))

\* lines 47-57: value.text is pformat(v), or repr(e) of the exception pformat
\* raised; it is a str, so the bytes branch of line 52 is not taken
RenderVar(value) == Escape(Trim(value.text))

(***************************************************************************)
(* The heap: exceptions, their links and their tracebacks.                 *)
(***************************************************************************)
VARIABLES
    cause,          \* e.__cause__: an exception or None
    context,        \* e.__context__: an exception or None
    traceback,      \* e.__traceback__ as the sequence of its entries, <<>> for None
    self_exc_type,  \* ExceptionReporter.exc_type
    self_exc_value, \* ExceptionReporter.exc_value
    self_tb,        \* ExceptionReporter.tb
    pc,             \* where get_traceback_data is
    exceptions,     \* local of get_traceback_frames
    exc_value,      \* local of get_traceback_frames
    tb,             \* local of get_traceback_frames
    frames,         \* local of get_traceback_frames
    lines_result,   \* what the last call of _get_lines_from_file gave
    report,         \* the dict get_traceback_data returns
    lf,             \* a direct call of _get_lines_from_file
    rv              \* one pass of the variable loop of get_traceback_data

vars == <<cause, context, traceback, self_exc_type, self_exc_value, self_tb, pc,
          exceptions, exc_value, tb, frames, lines_result, report, lf, rv>>

heap == <<cause, context, traceback, self_exc_type, self_exc_value, self_tb>>
walk == <<pc, exceptions, exc_value, tb, frames, lines_result, report>>

\* Lines of the source file of a traceback entry of the heap.
SmallLen == 2

Truthy(text) == [truthy |-> TRUE, text |-> text]

PlainLocals == << <<"foo", Truthy(<<"'", "<", "b", "'">>)>> >>
HideLocals == PlainLocals \o << <<"__traceback_hide__", Truthy(<<"T", "r", "u", "e">>)>> >>

\* A traceback entry: tb_frame.f_locals as (name, value) pairs, the file of
\* f_code.co_filename, f_globals['__loader__'] and tb_lineno.
Entry(f_locals, file, loader, tb_lineno) ==
    [f_locals |-> f_locals, file |-> file, loader |-> loader, tb_lineno |-> tb_lineno]

\* The entries of the heap: one with its source, one marked hidden, one whose
\* source cannot be obtained, one whose line is past the end of its source,
\* one whose file declares a coding that is no text codec.
EntryKinds ==
    { Entry(PlainLocals, PlainFile(SmallLen), NoLoader, SmallLen),
      Entry(HideLocals, PlainFile(SmallLen), NoLoader, SmallLen),
      Entry(PlainLocals, NoFile, Loader("import_error", 0), 1),
      Entry(PlainLocals, PlainFile(SmallLen), NoLoader, SmallLen + 1),
      Entry(PlainLocals, File(SmallLen, <<"no-such-codec">>, FALSE), NoLoader, 1) }

\* the class of every exception of the heap (tests/test_logs.py)
SpecialException == 1
TypeOf(e) == SpecialException

\* f_locals.get(name): the value, a falsy one when absent
LocalsGet(f_locals, name) ==
    IF \E i \in 1..Len(f_locals) : f_locals[i][1] = name
    THEN f_locals[CHOOSE i \in 1..Len(f_locals) : f_locals[i][1] = name][2]
    ELSE [truthy |-> FALSE, text |-> <<"N", "o", "n", "e">>]

\* e.__traceback__
TbOf(e) == IF Len(traceback[e]) = 0 THEN NullTb ELSE <<e, 1>>
\* tb.tb_next
TbNext(t) == IF t[2] < Len(traceback[t[1]]) THEN <<t[1], t[2] + 1>> ELSE NullTb
\* the entry a traceback object stands for
EntryOf(t) == traceback[t[1]][t[2]]

\* sys.exc_info(), and the triple a caller passes on from it
ExcInfo(e) == IF e = None THEN <<None, None, NullTb>> ELSE <<TypeOf(e), e, TbOf(e)>>

\* __init__, lines 31-37: without a traceback the three fields come from sys.exc_info()
Construct(exc_type, exc_val, tb_arg, ambient) ==
    IF tb_arg = NullTb THEN ExcInfo(ambient) ELSE <<exc_type, exc_val, tb_arg>>

\* explicit_or_implicit_cause, lines 138-141
ExplicitOrImplicitCause(e) == IF cause[e] # None THEN cause[e] ELSE context[e]

\* list.pop(0)
PopFirst(s) == [item |-> s[1], rest |-> SubSeq(s, 2, Len(s))]

\* list.pop(): the last item and the list without it
Pop(s) == [item |-> s[Len(s)], rest |-> SubSeq(s, 1, Len(s) - 1)]

\* lines 164-166: tb.tb_frame.f_locals.get('__traceback_hide__')
Hidden(t) == LocalsGet(EntryOf(t).f_locals, "__traceback_hide__").truthy

\* lines 167-174: the call of _get_lines_from_file for a traceback object
LinesOf(t) ==
    GetLinesFromFile(EntryOf(t).file, EntryOf(t).tb_lineno - 1, 7, EntryOf(t).loader)

\* lines 176-190 with the cause taken from the reported exception
FrameDictOfReported(ev, t, res) ==
    [exc_cause |-> ExplicitOrImplicitCause(self_exc_value),
     exc_cause_explicit |-> cause[self_exc_value],
     tb |-> t,
     lineno |-> (EntryOf(t).tb_lineno - 1) + 1,
     vars |-> EntryOf(t).f_locals,
     id |-> t,
     pre_context |-> res[2],
     context_line |-> res[3],
     post_context |-> res[4],
     pre_context_lineno |-> res[1] + 1]

\* lines 176-190: the dict of one frame (filename, function and type, copied
\* from the code object, are left out)
FrameDict(ev, t, res) ==
    [exc_cause |-> ExplicitOrImplicitCause(ev),
     exc_cause_explicit |-> cause[ev],
     tb |-> t,
     lineno |-> (EntryOf(t).tb_lineno - 1) + 1,
     vars |-> EntryOf(t).f_locals,
     id |-> t,
     pre_context |-> res[2],
     context_line |-> res[3],
     post_context |-> res[4],
     pre_context_lineno |-> res[1] + 1]

\* lines 175-190 without the test of pre_context_lineno
AppendAlways(fs, ev, t, res) == Append(fs, FrameDict(ev, t, res))

\* lines 175-190: the frame is appended unless its source was not obtained
AppendFrame(fs, ev, t, res) ==
    IF res[1] # None THEN Append(fs, FrameDict(ev, t, res)) ELSE fs

\* lines 194-200 (Python 3): the next traceback object, from the next
\* exception when this traceback is consumed and exceptions remain
Advance(excs, ev, t) ==
    IF TbNext(t) = NullTb /\ Len(excs) > 0
    THEN [exceptions |-> Pop(excs).rest, exc_value |-> Pop(excs).item,
          tb |-> TbOf(Pop(excs).item)]
    ELSE [exceptions |-> excs, exc_value |-> ev, tb |-> TbNext(t)]

\* lines 158-159 taking the first exception of the list
StartOuterFirst(excs) ==
    [exceptions |-> PopFirst(excs).rest, exc_value |-> PopFirst(excs).item,
     tb |-> IF Len(PopFirst(excs).rest) = 0 THEN self_tb ELSE TbOf(PopFirst(excs).item)]

\* lines 158-159 (Python 3): the root cause and the traceback to start with
Start(excs) ==
    [exceptions |-> Pop(excs).rest, exc_value |-> Pop(excs).item,
     tb |-> IF Len(Pop(excs).rest) = 0 THEN self_tb ELSE TbOf(Pop(excs).item)]

\* lines 43-59: the variables of every frame rendered
RenderFrames(fs) ==
    [i \in 1..Len(fs) |->
        [fs[i] EXCEPT !.vars =
            [j \in 1..Len(fs[i].vars) |-> <<fs[i].vars[j][1], RenderVar(fs[i].vars[j][2])>>]]]

\* lines 71-86 with the keys set unconditionally
BuildReportAlways(fs) ==
    [unicode_hint |-> <<>>, frames |-> fs, exception_type |-> self_exc_type,
     exception_value |-> self_exc_value, lastframe |-> fs]

\* lines 61-86: the dict c; the exceptions of the heap are no UnicodeError, so
\* unicode_hint stays ''; the keys that describe the interpreter are left out
BuildReport(fs) ==
    [unicode_hint |-> <<>>, frames |-> fs]
    @@ (IF self_exc_type # None THEN [exception_type |-> self_exc_type] ELSE <<>>)
    @@ (IF self_exc_value # None THEN [exception_value |-> self_exc_value] ELSE <<>>)
    @@ (IF Len(fs) > 0 THEN [lastframe |-> fs[Len(fs)]] ELSE <<>>)

NoResult == Returned(<<None, <<>>, NoLine, <<>>>>)
NoReport == <<>>
Idle == [state |-> "idle"]

(***************************************************************************)
(* Spec: get_traceback_data on a heap of exceptions.                       *)
(***************************************************************************)
Links == Exc \cup {None}

RECURSIVE Total(_, _)
Total(lens, n) == IF n = 0 THEN 0 ELSE lens[n] + Total(lens, n - 1)

RECURSIVE ReachFrom(_, _, _, _)
ReachFrom(c, x, e, seen) ==
    IF e = None \/ e \in seen THEN seen
    ELSE ReachFrom(c, x, IF c[e] # None THEN c[e] ELSE x[e], seen \cup {e})

PlainEntry == Entry(PlainLocals, PlainFile(SmallLen), NoLoader, SmallLen)

\* The heap and the reporter constructed on it.  A caller passes the triple
\* of an exception (or nothing), and sys.exc_info() is the triple of the
\* exception being handled or of none; the reported exception has been raised,
\* so it has a traceback.  The exceptions are numbered in the order the links
\* reach them from the reported one (a link leads to the next new number or
\* back to an earlier one); those the links do not reach are never read and
\* are left blank.  When the links loop no traceback entry is ever read: the
\* reported exception then has one plain entry and the others none.
Init ==
    /\ \E head \in {None, 1}, c \in [Exc -> Links] :
        /\ \A e \in Exc : c[e] # None => (head # None /\ c[e] <= e + 1)
        /\ \E x \in [Exc -> Links] :
            LET eff(e) == IF c[e] # None THEN c[e] ELSE x[e]
                reach == ReachFrom(c, x, head, {})
                loops == reach # {} /\ \A e \in reach : eff(e) # None
            IN  /\ \A e \in Exc : c[e] = None /\ x[e] # None => x[e] <= e + 1
                /\ \A e \in Exc \ reach : c[e] = None /\ x[e] = None
                /\ \E lens \in [Exc -> 0..MaxFrames] :
                    /\ Total(lens, NumExc) <= MaxFrames
                    /\ \A e \in Exc \ reach : lens[e] = 0
                    /\ head # None => lens[head] > 0
                    /\ loops => Total(lens, NumExc) = 1
                    /\ \E kinds \in [1..Total(lens, NumExc) -> EntryKinds] :
                        /\ loops => kinds[1] = PlainEntry
                        /\ cause = c
                        /\ context = x
                        /\ traceback =
                             [e \in Exc |->
                                [i \in 1..lens[e] |-> kinds[Total(lens, e - 1) + i]]]
                        /\ \E given \in {None, head}, ambient \in {None, head} :
                            LET made == Construct(ExcInfo(given)[1], ExcInfo(given)[2],
                                                  ExcInfo(given)[3], ambient)
                            IN  /\ made[2] = head
                                /\ self_exc_type = made[1]
                                /\ self_exc_value = made[2]
                                /\ self_tb = made[3]
    /\ pc = "start"
    /\ exceptions = <<>>
    /\ exc_value = None
    /\ tb = NullTb
    /\ frames = <<>>
    /\ lines_result = NoResult
    /\ report = NoReport
    /\ lf = Idle
    /\ rv = Idle

\* lines 42, 144-145: get_traceback_data calls get_traceback_frames
Begin ==
    /\ pc = "start"
    /\ pc' = "chain"
    /\ exceptions' = <<>>
    /\ exc_value' = self_exc_value
    /\ UNCHANGED <<heap, tb, frames, lines_result, report, lf, rv>>

\* lines 146-148: one pass of the loop that collects the causes
ChainStep ==
    /\ pc = "chain"
    /\ exc_value # None
    /\ Len(exceptions) < MaxChain
    /\ exceptions' = Append(exceptions, exc_value)
    /\ exc_value' = ExplicitOrImplicitCause(exc_value)
    /\ UNCHANGED <<heap, pc, tb, frames, lines_result, report, lf, rv>>

\* lines 150-159: the loop is over; return no frames, or start with the root cause
ChainEnd ==
    /\ pc = "chain"
    /\ exc_value = None
    /\ frames' = <<>>
    /\ IF Len(exceptions) = 0
       THEN /\ pc' = "render"
            /\ UNCHANGED <<exceptions, exc_value, tb>>
       ELSE /\ pc' = "walk"
            /\ exceptions' = Start(exceptions).exceptions
            /\ exc_value' = Start(exceptions).exc_value
            /\ tb' = Start(exceptions).tb
    /\ UNCHANGED <<heap, lines_result, report, lf, rv>>

\* lines 161-200: one pass of the loop over the traceback objects
WalkStep ==
    /\ pc = "walk"
    /\ tb # NullTb
    /\ IF Hidden(tb)
       THEN /\ tb' = TbNext(tb)
            /\ UNCHANGED <<pc, exceptions, exc_value, frames, lines_result>>
       ELSE /\ lines_result' = LinesOf(tb)
            /\ IF LinesOf(tb).raised
               THEN /\ pc' = "raised"
                    /\ UNCHANGED <<exceptions, exc_value, tb, frames>>
               ELSE /\ frames' = AppendFrame(frames, exc_value, tb, LinesOf(tb).value)
                    /\ exceptions' = Advance(exceptions, exc_value, tb).exceptions
                    /\ exc_value' = Advance(exceptions, exc_value, tb).exc_value
                    /\ tb' = Advance(exceptions, exc_value, tb).tb
                    /\ pc' = pc
    /\ UNCHANGED <<heap, report, lf, rv>>

\* line 202: the traceback is consumed, get_traceback_frames returns
WalkEnd ==
    /\ pc = "walk"
    /\ tb = NullTb
    /\ pc' = "render"
    /\ UNCHANGED <<heap, exceptions, exc_value, tb, frames, lines_result, report, lf, rv>>

\* lines 43-86: the variables are rendered and the report is built
Render ==
    /\ pc = "render"
    /\ report' = BuildReport(RenderFrames(frames))
    /\ frames' = RenderFrames(frames)
    /\ pc' = "returned"
    /\ UNCHANGED <<heap, exceptions, exc_value, tb, lines_result, lf, rv>>

Next == Begin \/ ChainStep \/ ChainEnd \/ WalkStep \/ WalkEnd \/ Render

Spec == Init /\ [][Next]_vars

(***************************************************************************)
(* SpecLines: _get_lines_from_file called on a file, a loader and a line.  *)
(***************************************************************************)
\* Lines of the longest source.
MaxSrcLen == 17

BlankHeap ==
    /\ cause = [e \in Exc |-> None]
    /\ context = [e \in Exc |-> None]
    /\ traceback = [e \in Exc |-> <<>>]
    /\ self_exc_type = None
    /\ self_exc_value = None
    /\ self_tb = NullTb
    /\ pc = "idle"
    /\ exceptions = <<>>
    /\ exc_value = None
    /\ tb = NullTb
    /\ frames = <<>>
    /\ lines_result = NoResult
    /\ report = NoReport

\* what the first three lines of a file declare
Declarations ==
    {<<d1, d2, d3>> : d1 \in {"", "latin-1", "no-such-codec"},
                      d2 \in {"", "latin-1", "no-such-codec"},
                      d3 \in {"", "no-such-codec"}}
Files ==
    {NoFile} \cup {File(n, decls, high) :
                    n \in 0..MaxSrcLen, decls \in Declarations, high \in BOOLEAN}
Loaders ==
    {NoLoader, Loader("no_get_source", 0), Loader("import_error", 0),
     Loader("returns_none", 0)} \cup {Loader("text", n) : n \in 0..MaxSrcLen}

InitLines ==
    /\ BlankHeap
    /\ rv = Idle
    /\ \E file \in Files, loader \in Loaders, lineno \in 0..MaxSrcLen :
        lf = [state |-> "ready", file |-> file, loader |-> loader, lineno |-> lineno,
              context_lines |-> 7, result |-> NoResult]

\* lines 92-135
CallGetLines ==
    /\ lf.state = "ready"
    /\ lf' = [lf EXCEPT !.state = "done",
                        !.result = GetLinesFromFile(lf.file, lf.lineno, lf.context_lines,
                                                    lf.loader)]
    /\ UNCHANGED <<heap, walk, rv>>

NextLines == CallGetLines

SpecLines == InitLines /\ [][NextLines]_vars

(***************************************************************************)
(* SpecVars: one pass of the loop of lines 46-57 on one rendered value.    *)
(***************************************************************************)
\* Longest of the short strings.
ShortLen == 4
\* How far around TrimLimit the lengths of the long strings go.
Near == 3

Patterns ==
    { <<"a">>, <<"<">>, <<"a", "&">>, <<"'", "b", ">">>, <<"\"", "x">>, <<"&", "<", ">", "y">> }

Repeat(pat, n) == [i \in 1..n |-> pat[((i - 1) % Len(pat)) + 1]]

Lengths == (0..ShortLen) \cup ((TrimLimit - Near)..(TrimLimit + Near))

InitVars ==
    /\ BlankHeap
    /\ lf = Idle
    /\ \E pat \in Patterns, n \in Lengths :
        rv = [state |-> "ready", value |-> Truthy(Repeat(pat, n)), out |-> <<>>]

\* lines 47-57
RenderOne ==
    /\ rv.state = "ready"
    /\ rv' = [rv EXCEPT !.state = "done", !.out = RenderVar(rv.value)]
    /\ UNCHANGED <<heap, walk, lf>>

NextVars == RenderOne

SpecVars == InitVars /\ [][NextVars]_vars

(***************************************************************************)
(* The claims.                                                             *)
(***************************************************************************)
\* the exception e was raised from or during the handling of
Link(e) == IF cause[e] # None THEN cause[e] ELSE context[e]

\* the exceptions that e was, directly or through others, caused by
RECURSIVE CausesWithin(_, _)
CausesWithin(e, n) ==
    IF n = 0 \/ Link(e) = None THEN {} ELSE {Link(e)} \cup CausesWithin(Link(e), n - 1)
CausesOf(e) == CausesWithin(e, NumExc)

IsHiddenEntry(en) ==
    \E i \in 1..Len(en.f_locals) :
        en.f_locals[i][1] = "__traceback_hide__" /\ en.f_locals[i][2].truthy
SourceUnobtainable(en) == en.loader.kind # "text" /\ ~en.file.exists
Count(seq, Test(_)) == Cardinality({i \in 1..Len(seq) : Test(seq[i])})

FramesReturned == pc \in {"render", "returned"}
TbsOf(fs) == [i \in 1..Len(fs) |-> fs[i].tb]

\* C1: the frames are grouped by exception, root cause first: of two frames
\* the earlier one comes from the same traceback at an earlier position, or
\* from the traceback of an exception the later frame's exception was caused by.
C1_RootCauseFirst ==
    \A i, j \in 1..Len(frames) :
        i < j =>
            LET a == frames[i].tb
                b == frames[j].tb
            IN  \/ a[1] = b[1] /\ a[2] < b[2]
                \/ a[1] # b[1] /\ a[1] \in CausesOf(b[1])

C1_Witness ==
    /\ pc = "returned"
    /\ Len(frames) = 3
    /\ frames[1].tb[1] # frames[3].tb[1]
    /\ Link(frames[3].tb[1]) = frames[1].tb[1]

\* C2: every frame carries the cause of the exception whose traceback it came
\* from: exc_cause is the explicit cause if there is one, else the implicit
\* context; exc_cause_explicit is set exactly when the cause is explicit; in a
\* chain of two every frame of the outer exception points at the inner one
\* and no frame of the root cause points at it.
C2_CauseOfOwnException ==
    \A i \in 1..Len(frames) :
        LET f == frames[i]
            e == f.tb[1]
        IN  /\ f.exc_cause = (IF cause[e] # None THEN cause[e] ELSE context[e])
            /\ (f.exc_cause_explicit # None) <=> (cause[e] # None)
            /\ (cause[e] # None) => f.exc_cause_explicit = f.exc_cause
            /\ (e = self_exc_value /\ Link(e) # None /\ Link(Link(e)) = None)
                    => f.exc_cause = Link(e)
            /\ Link(e) = None => f.exc_cause = None

C2_Witness ==
    /\ pc = "returned"
    /\ \E i, j \in 1..Len(frames) :
        /\ frames[i].tb[1] # self_exc_value
        /\ frames[i].exc_cause = None
        /\ frames[j].tb[1] = self_exc_value
        /\ frames[j].exc_cause = frames[i].tb[1]
        /\ frames[j].exc_cause_explicit = frames[i].tb[1]

\* C3: the loop that collects the causes is bounded: it never takes up an
\* exception it has already collected (the loop reads nothing but the
\* exception at hand, so taking one up again is running forever).
C3_ChainLoopBounded ==
    pc = "chain" =>
        \A i, j \in 1..Len(exceptions) : i # j => exceptions[i] # exceptions[j]

\* C4: with no exception available get_traceback_data does not fail, and the
\* report it returns has no frames and neither exception_type nor
\* exception_value nor lastframe.
C4_NoExceptionReport ==
    self_exc_value = None =>
        /\ pc # "raised"
        /\ pc = "returned" =>
            /\ report.frames = <<>>
            /\ DOMAIN report \cap {"exception_type", "exception_value", "lastframe"} = {}

C4_Witness == pc = "returned" /\ self_exc_value = None /\ DOMAIN report # {}

\* C5 as claimed: for an exception with no cause chain the number of frames
\* is the depth of the traceback minus the number of its hidden entries.
C5_DepthMinusHidden ==
    (FramesReturned /\ self_exc_value # None /\ Link(self_exc_value) = None) =>
        Len(frames) = Len(traceback[self_tb[1]])
                        - Count(traceback[self_tb[1]], IsHiddenEntry)

HiddenOrUnobtainable(en) == IsHiddenEntry(en) \/ SourceUnobtainable(en)

\* C5 amended: for an exception with no cause chain the number of frames
\* returned is the depth of the traceback minus the number of its entries
\* that are hidden or whose source cannot be obtained.
C5_DepthMinusOmitted ==
    (FramesReturned /\ self_exc_value # None /\ Link(self_exc_value) = None) =>
        Len(frames) = Len(traceback[self_tb[1]])
                        - Count(traceback[self_tb[1]], HiddenOrUnobtainable)

C5_Witness ==
    /\ pc = "returned"
    /\ self_exc_value # None
    /\ Link(self_exc_value) = None
    /\ Len(frames) = 1
    /\ Count(traceback[self_tb[1]], IsHiddenEntry) = 1
    /\ Count(traceback[self_tb[1]], SourceUnobtainable) = 1

\* C6: at an entry that is not hidden and whose source cannot be obtained,
\* _get_lines_from_file returns (None, [], None, []) without raising, no frame
\* is appended or removed, and the walk goes on: to the next entry of the
\* traceback, or to the traceback of the next exception when there is none.
C6_UnobtainableOmitted ==
    [][(pc = "walk" /\ tb # NullTb /\ ~IsHiddenEntry(EntryOf(tb))
            /\ SourceUnobtainable(EntryOf(tb)))
        => /\ ~lines_result'.raised
           /\ lines_result'.value = <<None, <<>>, <<>>, <<>>>>
           /\ frames' = frames
           /\ pc' = "walk"
           /\ tb[2] < Len(traceback[tb[1]]) => tb' = <<tb[1], tb[2] + 1>>
           /\ (tb[2] = Len(traceback[tb[1]]) /\ Len(exceptions) > 0)
                => /\ exc_value' = exceptions[Len(exceptions)]
                   /\ tb' \in {NullTb, <<exc_value', 1>>}]_vars

C6_Witness ==
    /\ pc = "returned"
    /\ \E i \in 1..Len(frames) :
        LET t == frames[i].tb
        IN  /\ t[2] > 1
            /\ SourceUnobtainable(traceback[t[1]][t[2] - 1])
            /\ ~IsHiddenEntry(traceback[t[1]][t[2] - 1])
            /\ \A j \in 1..Len(frames) : frames[j].tb # <<t[1], t[2] - 1>>

DigitChars == <<"0", "1", "2", "3", "4", "5", "6", "7", "8", "9">>
IsDigit(ch) == \E k \in 1..10 : DigitChars[k] = ch
RECURSIVE ValueOf(_)
ValueOf(d) ==
    IF Len(d) = 0 THEN 0
    ELSE 10 * ValueOf(SubSeq(d, 1, Len(d) - 1))
            + (CHOOSE k \in 0..9 : DigitChars[k + 1] = d[Len(d)])

EscapedHead == <<".", ".", ".", " ", "&", "l", "t", ";", "t", "r", "i", "m", "m", "e", "d", " ">>
EscapedTail == <<" ", "b", "y", "t", "e", "s", " ", "s", "t", "r", "i", "n", "g", "&", "g", "t", ";">>

\* C7: a rendered string longer than 4096 characters becomes its first 4096
\* characters followed by a marker that holds the original length, a string
\* of at most 4096 characters is kept whole, and the result is escaped after
\* the trimming: the escaped value is the escaped first 4096 characters and
\* the escaped marker, or the whole string escaped however long that is.
C7_TrimThenEscape ==
    rv.state = "done" =>
        LET v == rv.value.text
            first == Escape(SubSeq(v, 1, Min(Len(v), TrimLimit)))
            rest == SubSeq(rv.out, Len(first) + 1, Len(rv.out))
            digits == SubSeq(rest, Len(EscapedHead) + 1, Len(rest) - Len(EscapedTail))
        IN  /\ Len(rv.out) >= Len(first)
            /\ SubSeq(rv.out, 1, Len(first)) = first
            /\ Len(v) <= TrimLimit => rest = <<>>
            /\ Len(v) > TrimLimit =>
                /\ Len(rest) > Len(EscapedHead) + Len(EscapedTail)
                /\ rest = EscapedHead \o digits \o EscapedTail
                /\ \A k \in 1..Len(digits) : IsDigit(digits[k])
                /\ ValueOf(digits) = Len(v)

C7_Witness ==
    /\ rv.state = "done"
    /\ Len(rv.value.text) = TrimLimit + 1
    /\ rv.value.text[1] = "<"
    /\ Len(rv.out) > 4 * TrimLimit

\* the entries of e's traceback from the i-th on that are neither hidden nor
\* without obtainable source
RECURSIVE VisibleFrom(_, _)
VisibleFrom(e, i) ==
    IF i > Len(traceback[e]) THEN <<>>
    ELSE (IF HiddenOrUnobtainable(traceback[e][i]) THEN <<>> ELSE <<(<<e, i>>)>>)
            \o VisibleFrom(e, i + 1)

RECURSIVE ExpectedFrom(_)
ExpectedFrom(e) == IF e = None THEN <<>> ELSE ExpectedFrom(Link(e)) \o VisibleFrom(e, 1)

\* C8: when the frames are returned no exception is left unwalked, and every
\* entry of every exception of the chain that is neither hidden nor without
\* obtainable source is in the frames exactly once, root cause first.
C8_EveryExceptionWalked ==
    (FramesReturned /\ self_exc_value # None) =>
        /\ exceptions = <<>>
        /\ TbsOf(frames) = ExpectedFrom(self_exc_value)

LinesObtained == lf.loader.kind = "text" \/ lf.file.exists
LinesCount == IF lf.loader.kind = "text" THEN Len(lf.loader.lines) ELSE Len(lf.file.lines)
LineNumbers(lines) == [i \in 1..Len(lines) |-> lines[i][2]]

\* C9: when the source was obtained and the line is out of range for it (a
\* source of no lines included), _get_lines_from_file returns the unavailable
\* result and does not raise.
C9_OutOfRangeUnavailable ==
    (lf.state = "done" /\ LinesObtained /\ lf.lineno >= LinesCount) =>
        /\ ~lf.result.raised
        /\ lf.result.value[1] = None
        /\ lf.result.value[3] = NoLine

\* C10: when the source is available and a context is returned, it is the
\* window of 7 lines before and 7 lines after the line: pre_context is the
\* min(7, lines before) lines before it, post_context the min(7, lines after)
\* lines after it, context_line the line itself, and pre_context_lineno (the
\* returned bound plus one) the number of the first line of pre_context.
C10_SevenBeforeSevenAfter ==
    (lf.state = "done" /\ LinesObtained /\ lf.lineno < LinesCount /\ ~lf.result.raised) =>
        LET n == lf.lineno + 1
            before == Min(7, n - 1)
            after == Min(7, LinesCount - n)
            res == lf.result.value
        IN  /\ LineNumbers(res[2]) = [i \in 1..before |-> n - before + i - 1]
            /\ res[3][2] = n
            /\ LineNumbers(res[4]) = [i \in 1..after |-> n + i]
            /\ before > 0 => res[1] + 1 = n - before

====
